---- MODULE Spec2Model ----
(***************************************************************************)
(* Bidirectional path search of networkx/algorithms/                       *)
(* bidirectional_path_search.py: bidirectional_has_path,                   *)
(* bidirectional_all_shortest_paths and bidirectional_all_simple_paths,    *)
(* each with its simple-graph and its multigraph engine.                   *)
(*                                                                         *)
(* One state of the model is one call at a round boundary of its engine.   *)
(* A path is a sequence of nodes.  The paths a generator yields are kept   *)
(* as bags: `out' holds everything yielded so far, `lastYield' what the    *)
(* latest round yielded.  The order of the yields inside one round is the  *)
(* iteration order of Python sets and dicts and is not modelled.           *)
(***************************************************************************)
EXTENDS Integers, Sequences, FiniteSets, Bags, TLC

VARIABLES G, op, source, target, cutoff, pc, leaves, tree, nodes, found,
          round, modus, out, lastYield, result, error

vars == <<G, op, source, target, cutoff, pc, leaves, tree, nodes, found,
          round, modus, out, lastYield, result, error>>

(***************************************************************************)
(* Bounds of the input graphs.                                             *)
(***************************************************************************)
MaxNodes == 5
SimpleNodes == 4
MultiNodes == 4
EntryNodes == 2
WideNodes == 7
MaxEdges == 6
MaxArcs == 4
MaxMultiEdges == 3
WideArcs == 8
MaxMult == 2
MaxCutoff == 3

(***************************************************************************)
(* The graph collaborator.  A graph has the nodes 0 .. n-1 and a map       *)
(* `mult' from its edges to the number of parallel copies; an undirected   *)
(* edge {u, v} is stored once, as <<u, v>> with u < v.  Self-loops are     *)
(* left out: every engine skips a neighbor that is the leaf itself.        *)
(***************************************************************************)
NodesOf(g) == 0 .. (g.n - 1)

EdgeCount(g, u, v) ==
    IF g.directed
    THEN IF <<u, v>> \in DOMAIN g.mult THEN g.mult[<<u, v>>] ELSE 0
    ELSE IF u < v
         THEN IF <<u, v>> \in DOMAIN g.mult THEN g.mult[<<u, v>>] ELSE 0
         ELSE IF <<v, u>> \in DOMAIN g.mult THEN g.mult[<<v, u>>] ELSE 0

successors(g, u) == {v \in NodesOf(g) : EdgeCount(g, u, v) > 0}

predecessors(g, u) == {v \in NodesOf(g) : EdgeCount(g, v, u) > 0}

\* neighbors that ignores the side being expanded
neighbors_forward(g, m, node) == successors(g, node)

\* neighbors = lambda modus, node: ... of the simple-graph engines
neighbors(g, m, node) ==
    IF g.directed
    THEN IF m = 1 THEN predecessors(g, node) ELSE successors(g, node)
    ELSE successors(g, node)

\* [v for u, v in G.edges(node)] of the multigraph engines, as a bag:
\* one copy of v per parallel edge; G.edges is out_edges when G is directed
edges(g, node) == [v \in successors(g, node) |-> EdgeCount(g, node, v)]

Pairs(n, d) ==
    IF d THEN {e \in (0 .. (n - 1)) \X (0 .. (n - 1)) : e[1] # e[2]}
         ELSE {e \in (0 .. (n - 1)) \X (0 .. (n - 1)) : e[1] < e[2]}

\* the j-th pair of nodes of a graph on 0 .. n-1, j in 0 .. n*n - 1
PairAt(n, j) == <<j \div n, j % n>>

\* G is a graph on 0 .. n-1 whose edges are E and at most k more edges,
\* each a pair of Pairs(n, d) at position lo or later, in mu(e) copies
RECURSIVE HasEdges(_, _, _, _, _, _, _)
HasEdges(n, d, multi, copies, E, lo, k) ==
    \/ \E mu \in [E -> copies] :
           G = [n |-> n, directed |-> d, multigraph |-> multi, mult |-> mu]
    \/ /\ k > 0
       /\ \E j \in lo .. (n * n - 1) :
              /\ PairAt(n, j) \in Pairs(n, d)
              /\ HasEdges(n, d, multi, copies, E \cup {PairAt(n, j)}, j + 1, k - 1)

\* G is a simple graph on at most maxn nodes
IsSimpleGraph(maxn) ==
    \E n \in 1 .. maxn : \E d \in BOOLEAN :
        HasEdges(n, d, FALSE, {1}, {}, 0, IF d THEN MaxArcs ELSE MaxEdges)

\* G is a multigraph on at most maxn nodes: at most MaxMultiEdges distinct
\* edges, each in 1 .. MaxMult parallel copies
IsMultiGraph(maxn) ==
    \E n \in 1 .. maxn : \E d \in BOOLEAN :
        HasEdges(n, d, TRUE, 1 .. MaxMult, {}, 0, MaxMultiEdges)

\* two layered components: 0 -> {1, 2} -> 3 around the source and
\* {4, 5} -> 6 around the target, with arcs that may join them
WideTemplate ==
    {<<0, 1>>, <<0, 2>>, <<1, 2>>, <<2, 1>>, <<1, 3>>, <<2, 3>>,
     <<3, 4>>, <<3, 5>>, <<4, 6>>, <<5, 6>>}

\* G is a graph on WideNodes nodes of at most WideArcs arcs of the template
IsWideGraph ==
    \E E \in SUBSET WideTemplate :
        /\ Cardinality(E) <= WideArcs
        /\ G = [n |-> WideNodes, directed |-> TRUE, multigraph |-> FALSE,
                mult |-> [e \in E |-> 1]]

(***************************************************************************)
(* Paths.                                                                  *)
(***************************************************************************)
Range(p) == {p[i] : i \in DOMAIN p}

Last(p) == p[Len(p)]

Reverse(p) == [i \in 1 .. Len(p) |-> p[Len(p) + 1 - i]]

\* a stitch that keeps the meeting node of both partial paths
StitchRepeat(m, path_s, path_t) ==
    IF m = 1 THEN path_t \o <<Last(path_t)>> \o Reverse(path_s)
             ELSE path_s \o <<Last(path_t)>> \o Reverse(path_t)

\* if modus: path_t + tuple(reversed(path_s)) else path_s + tuple(reversed(path_t))
Stitch(m, path_s, path_t) ==
    IF m = 1 THEN path_t \o Reverse(path_s) ELSE path_s \o Reverse(path_t)

\* not set(path_t).intersection(path_s)
Disjoint(path_t, path_s) == Range(path_t) \cap Range(path_s) = {}

RECURSIVE SumFn(_, _)
SumFn(f, S) ==
    IF S = {} THEN 0
    ELSE LET e == CHOOSE x \in S : TRUE IN f[e] + SumFn(f, S \ {e})

\* the bag holding val[e], wt[e] times, for every e of the common domain
BagOfEvents(val, wt) ==
    [p \in {val[e] : e \in DOMAIN val} |->
        SumFn(wt, {e \in DOMAIN val : val[e] = p})]

BagSize(B) == SumFn(B, DOMAIN B)

(***************************************************************************)
(* The state before a call, and the three kinds of outcome.                *)
(***************************************************************************)
NoValue == <<>>

\* a choice of side that expands the target side on equality too
SideOrEqual(len0, len1) == IF len1 <= len0 THEN 1 ELSE 0

\* modus = len(x[1]) < len(x[0])
Side(len0, len1) == IF len1 < len0 THEN 1 ELSE 0

\* the two checks in the other order
CheckEndpointsTargetFirst(g, s, t) ==
    IF t \notin NodesOf(g) THEN "target node not in graph"
    ELSE IF s \notin NodesOf(g) THEN "source node not in graph"
    ELSE "ok"

\* the two checks every public function starts with
CheckEndpoints(g, s, t) ==
    IF s \notin NodesOf(g) THEN "source node not in graph"
    ELSE IF t \notin NodesOf(g) THEN "target node not in graph"
    ELSE "ok"

(***************************************************************************)
(* bidirectional_has_path                                                  *)
(***************************************************************************)
\* the neighbors of the leaves without the test against the seen set
HasPathCandidatesUnpruned(g, m, lv, nd) ==
    UNION {neighbors(g, m, leave) : leave \in lv[m + 1]}

\* the neighbors the round's loops admit: not yet seen on the expanded side
HasPathCandidates(g, m, lv, nd) ==
    {s \in UNION {neighbors(g, m, leave) : leave \in lv[m + 1]} :
        s \notin nd[m + 1]}

HasPathMultiCandidates(g, m, lv, nd) ==
    {s \in UNION {DOMAIN edges(g, leave) : leave \in lv[m + 1]} :
        s \notin nd[m + 1]}

\* while leaves[0] and leaves[1]
HasPathLoop(lv) == lv[1] # {} /\ lv[2] # {}

\* one round of the while loop, given the admitted neighbors: `hit' says
\* that one of them is a leaf of the other side (return True)
HasPathOutcome(m, temp, lv, nd) ==
    [modus |-> m,
     hit |-> temp \cap lv[(1 - m) + 1] # {},
     leaves |-> [lv EXCEPT ![m + 1] = temp],
     nodes |-> [nd EXCEPT ![m + 1] = @ \cup temp]]

has_path_round(g, lv, nd) ==
    LET m == Side(Cardinality(lv[1]), Cardinality(lv[2]))
    IN HasPathOutcome(m, HasPathCandidates(g, m, lv, nd), lv, nd)

has_path_multi_round(g, lv, nd) ==
    LET m == Side(Cardinality(lv[1]), Cardinality(lv[2]))
    IN HasPathOutcome(m, HasPathMultiCandidates(g, m, lv, nd), lv, nd)

bidirectional_has_path ==
    /\ pc = "call"
    /\ op = "has_path"
    /\ LET chk == CheckEndpoints(G, source, target) IN
       IF chk # "ok"
       THEN /\ pc' = "raised"
            /\ error' = <<"NetworkXError", chk>>
            /\ UNCHANGED <<leaves, nodes>>
       ELSE /\ pc' = "loop"
            /\ leaves' = <<{source}, {target}>>
            /\ nodes' = <<{source}, {target}>>
            /\ UNCHANGED error
    /\ UNCHANGED <<G, op, source, target, cutoff, tree, found, round, modus,
                   out, lastYield, result>>

HasPathApply(st) ==
    /\ modus' = st.modus
    /\ IF st.hit
       THEN /\ pc' = "returned"
            /\ result' = <<TRUE>>
            /\ UNCHANGED <<leaves, nodes>>
       ELSE /\ leaves' = st.leaves
            /\ nodes' = st.nodes
            /\ UNCHANGED <<pc, result>>
    /\ UNCHANGED <<G, op, source, target, cutoff, tree, found, round, out,
                   lastYield, error>>

\* one round of the while loop of _bidirectional_has_path
HasPathRound ==
    /\ pc = "loop"
    /\ op = "has_path"
    /\ ~G.multigraph
    /\ HasPathLoop(leaves)
    /\ HasPathApply(has_path_round(G, leaves, nodes))

\* one round of the while loop of _bidirectional_has_path_multi
HasPathMultiRound ==
    /\ pc = "loop"
    /\ op = "has_path"
    /\ G.multigraph
    /\ HasPathLoop(leaves)
    /\ HasPathApply(has_path_multi_round(G, leaves, nodes))

\* the while condition fails: return False (both engines)
HasPathExit ==
    /\ pc = "loop"
    /\ op = "has_path"
    /\ ~HasPathLoop(leaves)
    /\ pc' = "returned"
    /\ result' = <<FALSE>>
    /\ UNCHANGED <<G, op, source, target, cutoff, leaves, tree, nodes, found,
                   round, modus, out, lastYield, error>>

(***************************************************************************)
(* bidirectional_all_shortest_paths                                        *)
(***************************************************************************)
\* the pairs <<path_s, s>> the two outer loops reach: s is a neighbor of the
\* leaf of path_s and is not in path_s
ShortestExtensions(g, m, tr) ==
    UNION {{<<path_s, s>> :
               s \in {x \in neighbors(g, m, Last(path_s)) : x \notin Range(path_s)}} :
           path_s \in tr[m + 1]}

\* the triples <<<<path_s, s>>, path_t>> that yield a path
ShortestMeetings(ext, m, tr, nd) ==
    {x \in ext \X tr[(1 - m) + 1] :
        /\ x[1][2] \in nd[(1 - m) + 1]
        /\ x[1][2] = Last(x[2])
        /\ Disjoint(x[2], x[1][1])}

\* a loop condition that goes on after a path was found
ShortestLoopNoFound(fnd, tr) == tr[1] # {} /\ tr[2] # {}

\* while not found and tree[0] and tree[1]
ShortestLoop(fnd, tr) == fnd = 0 /\ tr[1] # {} /\ tr[2] # {}

all_shortest_paths_round(g, tr, nd, fnd) ==
    LET m == Side(Cardinality(tr[1]), Cardinality(tr[2]))
        ext == ShortestExtensions(g, m, tr)
        meet == ShortestMeetings(ext, m, tr, nd)
        path == [x \in meet |-> Stitch(m, x[1][1], x[2])]
    IN [modus |-> m,
        found |-> IF meet # {} THEN 1 ELSE fnd,
        yields |-> BagOfEvents(path, [x \in meet |-> 1]),
        nodes |-> [nd EXCEPT ![m + 1] = @ \cup {e[2] : e \in ext}],
        tree |-> [tr EXCEPT ![m + 1] = {Append(e[1], e[2]) : e \in ext}]]

\* the same for the multigraph engine, whose trees are lists (bags) of paths
ShortestMultiExtensions(g, m, tr) ==
    UNION {{<<path_s, s>> :
               s \in {x \in DOMAIN edges(g, Last(path_s)) : x \notin Range(path_s)}} :
           path_s \in DOMAIN tr[m + 1]}

ShortestMultiMeetings(ext, m, tr) ==
    {x \in ext \X DOMAIN tr[(1 - m) + 1] :
        /\ x[1][2] = Last(x[2])
        /\ Disjoint(x[2], x[1][1])}

ShortestMultiLoop(fnd, tr) ==
    fnd = 0 /\ DOMAIN tr[1] # {} /\ DOMAIN tr[2] # {}

all_shortest_paths_multi_round(g, tr, fnd) ==
    LET m == Side(BagSize(tr[1]), BagSize(tr[2]))
        ext == ShortestMultiExtensions(g, m, tr)
        meet == ShortestMultiMeetings(ext, m, tr)
        copies == [e \in ext |-> tr[m + 1][e[1]] * edges(g, Last(e[1]))[e[2]]]
        path == [x \in meet |-> Stitch(m, x[1][1], x[2])]
        times == [x \in meet |-> copies[x[1]] * tr[(1 - m) + 1][x[2]]]
        grown == [e \in ext |-> Append(e[1], e[2])]
    IN [modus |-> m,
        found |-> IF meet # {} THEN 1 ELSE fnd,
        yields |-> BagOfEvents(path, times),
        tree |-> [tr EXCEPT ![m + 1] = BagOfEvents(grown, copies)]]

bidirectional_all_shortest_paths ==
    /\ pc = "call"
    /\ op = "all_shortest_paths"
    /\ LET chk == CheckEndpoints(G, source, target) IN
       IF chk # "ok"
       THEN /\ pc' = "raised"
            /\ error' = <<"NetworkXError", chk>>
            /\ UNCHANGED <<tree, nodes>>
       ELSE /\ pc' = "loop"
            /\ UNCHANGED error
            /\ IF G.multigraph
               THEN /\ tree' = <<SetToBag({<<source>>}), SetToBag({<<target>>})>>
                    /\ UNCHANGED nodes
               ELSE /\ tree' = <<{<<source>>}, {<<target>>}>>
                    /\ nodes' = <<{source}, {target}>>
    /\ UNCHANGED <<G, op, source, target, cutoff, leaves, found, round, modus,
                   out, lastYield, result>>

\* one round of the while loop of _bidirectional_all_shortest_paths
ShortestRound ==
    /\ pc = "loop"
    /\ op = "all_shortest_paths"
    /\ ~G.multigraph
    /\ ShortestLoop(found, tree)
    /\ LET st == all_shortest_paths_round(G, tree, nodes, found)
       IN /\ modus' = st.modus
          /\ found' = st.found
          /\ lastYield' = st.yields
          /\ out' = out (+) st.yields
          /\ nodes' = st.nodes
          /\ tree' = st.tree
    /\ UNCHANGED <<G, op, source, target, cutoff, pc, leaves, round, result,
                   error>>

\* one round of the while loop of _bidirectional_all_shortest_paths_multi
ShortestMultiRound ==
    /\ pc = "loop"
    /\ op = "all_shortest_paths"
    /\ G.multigraph
    /\ ShortestMultiLoop(found, tree)
    /\ LET st == all_shortest_paths_multi_round(G, tree, found)
       IN /\ modus' = st.modus
          /\ found' = st.found
          /\ lastYield' = st.yields
          /\ out' = out (+) st.yields
          /\ tree' = st.tree
    /\ UNCHANGED <<G, op, source, target, cutoff, pc, leaves, nodes, round,
                   result, error>>

\* the while condition fails: raise NetworkXNoPath unless a path was found
ShortestExit ==
    /\ pc = "loop"
    /\ op = "all_shortest_paths"
    /\ IF G.multigraph THEN ~ShortestMultiLoop(found, tree)
                       ELSE ~ShortestLoop(found, tree)
    /\ IF found = 0
       THEN /\ pc' = "raised"
            /\ error' = <<"NetworkXNoPath", "No path between source and target.">>
       ELSE /\ pc' = "returned"
            /\ UNCHANGED error
    /\ UNCHANGED <<G, op, source, target, cutoff, leaves, tree, nodes, found,
                   round, modus, out, lastYield, result>>

(***************************************************************************)
(* bidirectional_all_simple_paths                                          *)
(***************************************************************************)
\* a tree of this engine is a dict: leaf -> set of the paths that end in it
LeafDict(root) == [leave \in {root} |-> {<<root>>}]

SimpleExtensions(g, m, tr) ==
    UNION {UNION {{<<path_s, s>> :
                      path_s \in {p \in tr[m + 1][leave] : s \notin Range(p)}} :
                  s \in neighbors(g, m, leave)} :
           leave \in DOMAIN tr[m + 1]}

SimpleMultiExtensions(g, m, tr) ==
    UNION {UNION {{<<path_s, s>> :
                      path_s \in {p \in tr[m + 1][leave] : s \notin Range(p)}} :
                  s \in DOMAIN edges(g, leave)} :
           leave \in DOMAIN tr[m + 1]}

\* meetings without the test that the two partial paths share no node
SimpleMeetingsNoDisjoint(ext, m, tr) ==
    UNION {{<<e, path_t>> : path_t \in tr[(1 - m) + 1][e[2]]} :
           e \in {x \in ext : x[2] \in DOMAIN tr[(1 - m) + 1]}}

\* the triples <<<<path_s, s>>, path_t>> that yield a path
SimpleMeetings(ext, m, tr) ==
    UNION {{<<e, path_t>> :
               path_t \in {p \in tr[(1 - m) + 1][e[2]] : Disjoint(p, e[1])}} :
           e \in {x \in ext : x[2] \in DOMAIN tr[(1 - m) + 1]}}

\* temp_tree after the round
TempTree(ext) ==
    [s \in {e[2] : e \in ext} |->
        {Append(e[1], e[2]) : e \in {x \in ext : x[2] = s}}]

all_simple_paths_round(g, tr) ==
    LET m == Side(Cardinality(DOMAIN tr[1]), Cardinality(DOMAIN tr[2]))
        ext == SimpleExtensions(g, m, tr)
        meet == SimpleMeetings(ext, m, tr)
        path == [x \in meet |-> Stitch(m, x[1][1], x[2])]
    IN [modus |-> m,
        yields |-> BagOfEvents(path, [x \in meet |-> 1]),
        tree |-> [tr EXCEPT ![m + 1] = TempTree(ext)]]

\* the multigraph engine meets the same neighbor once per parallel edge
all_simple_paths_multi_round(g, tr) ==
    LET m == Side(Cardinality(DOMAIN tr[1]), Cardinality(DOMAIN tr[2]))
        ext == SimpleMultiExtensions(g, m, tr)
        meet == SimpleMeetings(ext, m, tr)
        path == [x \in meet |-> Stitch(m, x[1][1], x[2])]
        times == [x \in meet |-> edges(g, Last(x[1][1]))[x[1][2]]]
    IN [modus |-> m,
        yields |-> BagOfEvents(path, times),
        tree |-> [tr EXCEPT ![m + 1] = TempTree(ext)]]

\* if cutoff is None: cutoff = len(G) - 1
EffectiveCutoff(g, c) == IF c = NoValue THEN g.n - 1 ELSE c[1]

bidirectional_all_simple_paths ==
    /\ pc = "call"
    /\ op = "all_simple_paths"
    /\ LET chk == CheckEndpoints(G, source, target) IN
       IF chk # "ok"
       THEN /\ pc' = "raised"
            /\ error' = <<"NetworkXError", chk>>
            /\ UNCHANGED tree
       ELSE /\ UNCHANGED error
            /\ IF EffectiveCutoff(G, cutoff) < 1
               THEN /\ pc' = "returned"
                    /\ UNCHANGED tree
               ELSE /\ pc' = "loop"
                    /\ tree' = <<LeafDict(source), LeafDict(target)>>
    /\ UNCHANGED <<G, op, source, target, cutoff, leaves, nodes, found, round,
                   modus, out, lastYield, result>>

SimpleApply(st) ==
    /\ modus' = st.modus
    /\ lastYield' = st.yields
    /\ out' = out (+) st.yields
    /\ tree' = st.tree
    /\ round' = round + 1
    /\ UNCHANGED <<G, op, source, target, cutoff, pc, leaves, nodes, found,
                   result, error>>

\* one round of the for loop of _bidirectional_all_simple_paths
SimpleRound ==
    /\ pc = "loop"
    /\ op = "all_simple_paths"
    /\ ~G.multigraph
    /\ round < EffectiveCutoff(G, cutoff)
    /\ SimpleApply(all_simple_paths_round(G, tree))

\* one round of the for loop of _bidirectional_all_simple_paths_multi
SimpleMultiRound ==
    /\ pc = "loop"
    /\ op = "all_simple_paths"
    /\ G.multigraph
    /\ round < EffectiveCutoff(G, cutoff)
    /\ SimpleApply(all_simple_paths_multi_round(G, tree))

\* range(cutoff) is exhausted: the generator ends
SimpleExit ==
    /\ pc = "loop"
    /\ op = "all_simple_paths"
    /\ round >= EffectiveCutoff(G, cutoff)
    /\ pc' = "returned"
    /\ UNCHANGED <<G, op, source, target, cutoff, leaves, tree, nodes, found,
                   round, modus, out, lastYield, result, error>>

(***************************************************************************)
(* Initial states: a call that has not started.                            *)
(***************************************************************************)
Fresh ==
    /\ pc = "call"
    /\ leaves = NoValue
    /\ tree = NoValue
    /\ nodes = NoValue
    /\ found = 0
    /\ round = 0
    /\ modus = 0
    /\ out = EmptyBag
    /\ lastYield = EmptyBag
    /\ result = NoValue
    /\ error = NoValue

\* The engines use node names only through equality, so every call with both
\* endpoints in the graph is, up to renaming the nodes, a call with source 0.
InitHasPath ==
    /\ IsSimpleGraph(MaxNodes)
    /\ op = "has_path"
    /\ source = 0
    /\ target \in NodesOf(G) \cap {0, 1}
    /\ cutoff = NoValue
    /\ Fresh

NextHasPath == bidirectional_has_path \/ HasPathRound \/ HasPathExit

SpecHasPath == InitHasPath /\ [][NextHasPath]_vars

InitShortest ==
    /\ IsSimpleGraph(MaxNodes)
    /\ op = "all_shortest_paths"
    /\ source = 0
    /\ target \in NodesOf(G) \cap {0, 1}
    /\ cutoff = NoValue
    /\ Fresh

NextShortest == bidirectional_all_shortest_paths \/ ShortestRound \/ ShortestExit

SpecShortest == InitShortest /\ [][NextShortest]_vars

\* cutoff omitted, or given
Cutoffs == {NoValue} \cup {<<c>> : c \in 0 .. MaxCutoff}

InitSimple ==
    /\ IsSimpleGraph(SimpleNodes)
    /\ op = "all_simple_paths"
    /\ source = 0
    /\ target \in NodesOf(G)
    /\ cutoff \in Cutoffs
    /\ Fresh

NextSimple == bidirectional_all_simple_paths \/ SimpleRound \/ SimpleExit

SpecSimple == InitSimple /\ [][NextSimple]_vars

\* the two engines without a cutoff, every enabled step eventually taken:
\* the caller consumes the generator to its end
InitNoCutoff ==
    /\ IsSimpleGraph(SimpleNodes)
    /\ op \in {"has_path", "all_shortest_paths"}
    /\ source = 0
    /\ target \in NodesOf(G) \cap {0, 1}
    /\ cutoff = NoValue
    /\ Fresh

NextNoCutoff ==
    \/ bidirectional_has_path \/ HasPathRound \/ HasPathExit
    \/ bidirectional_all_shortest_paths \/ ShortestRound \/ ShortestExit

SpecNoCutoff == InitNoCutoff /\ [][NextNoCutoff]_vars /\ WF_vars(NextNoCutoff)

\* all-shortest-paths on the layered graphs
InitWide ==
    /\ IsWideGraph
    /\ op = "all_shortest_paths"
    /\ source = 0
    /\ target \in {3, 6}
    /\ cutoff = NoValue
    /\ Fresh

SpecWide == InitWide /\ [][NextShortest]_vars

\* every public function on every kind of graph, the endpoints in the
\* graph or not (node EntryNodes is in no graph)
InitEntry ==
    /\ (IsSimpleGraph(EntryNodes) \/ IsMultiGraph(EntryNodes))
    /\ op \in {"has_path", "all_shortest_paths", "all_simple_paths"}
    /\ source \in 0 .. EntryNodes
    /\ target \in 0 .. EntryNodes
    /\ cutoff \in IF op = "all_simple_paths" THEN Cutoffs ELSE {NoValue}
    /\ Fresh

Next ==
    \/ bidirectional_has_path \/ HasPathRound \/ HasPathMultiRound
    \/ HasPathExit
    \/ bidirectional_all_shortest_paths \/ ShortestRound
    \/ ShortestMultiRound \/ ShortestExit
    \/ bidirectional_all_simple_paths \/ SimpleRound \/ SimpleMultiRound
    \/ SimpleExit

Spec == InitEntry /\ [][Next]_vars

\* the multigraph engines
InitMulti ==
    /\ IsMultiGraph(MultiNodes)
    /\ op \in {"has_path", "all_shortest_paths", "all_simple_paths"}
    /\ source = 0
    /\ target \in NodesOf(G)
    /\ cutoff = NoValue
    /\ Fresh

NextMulti ==
    \/ bidirectional_has_path \/ HasPathMultiRound \/ HasPathExit
    \/ bidirectional_all_shortest_paths \/ ShortestMultiRound \/ ShortestExit
    \/ bidirectional_all_simple_paths \/ SimpleMultiRound \/ SimpleExit

SpecMulti == InitMulti /\ [][NextMulti]_vars

(***************************************************************************)
(* The simple-graph engines run to their end, as functions of the call.    *)
(***************************************************************************)
RECURSIVE RunHasPath(_, _, _)
RunHasPath(g, lv, nd) ==
    IF ~HasPathLoop(lv) THEN FALSE
    ELSE LET st == has_path_round(g, lv, nd)
         IN IF st.hit THEN TRUE ELSE RunHasPath(g, st.leaves, st.nodes)

RECURSIVE RunShortest(_, _, _, _, _)
RunShortest(g, tr, nd, fnd, acc) ==
    IF ~ShortestLoop(fnd, tr) THEN [out |-> acc, nopath |-> fnd = 0]
    ELSE LET st == all_shortest_paths_round(g, tr, nd, fnd)
         IN RunShortest(g, st.tree, st.nodes, st.found, acc (+) st.yields)

RECURSIVE RunSimple(_, _, _, _, _)
RunSimple(g, tr, r, c, acc) ==
    IF r >= c THEN acc
    ELSE LET st == all_simple_paths_round(g, tr)
         IN RunSimple(g, st.tree, r + 1, c, acc (+) st.yields)

\* the simple graph with the same nodes and direction, parallel edges collapsed
Collapse(g) ==
    [g EXCEPT !.multigraph = FALSE, !.mult = [e \in DOMAIN g.mult |-> 1]]

(***************************************************************************)
(* Reference definitions the results are compared with.  They follow the   *)
(* edges forward from the source only and share nothing with the engines.  *)
(***************************************************************************)
RECURSIVE ReachFrom(_, _)
ReachFrom(g, S) ==
    LET S2 == S \cup UNION {successors(g, u) : u \in S}
    IN IF S2 = S THEN S ELSE ReachFrom(g, S2)

\* breadth-first reachability; a node is reachable from itself
Reachable(g, s, t) == t \in ReachFrom(g, {s})

\* every walk of k edges that starts at s
RECURSIVE WalksFrom(_, _, _)
WalksFrom(g, s, k) ==
    IF k = 0 THEN {<<s>>}
    ELSE UNION {{Append(w, v) : v \in successors(g, Last(w))} :
                w \in WalksFrom(g, s, k - 1)}

NoRepeat(w) == Cardinality(Range(w)) = Len(w)

\* the simple paths of exactly k edges from s to t
SimplePathsOfLength(g, s, t, k) ==
    {w \in WalksFrom(g, s, k) : Last(w) = t /\ NoRepeat(w)}

\* the simple paths of 1 .. c edges from s to t
SimplePathsUpTo(g, s, t, c) ==
    UNION {SimplePathsOfLength(g, s, t, k) : k \in 1 .. c}

\* the number of edges of a shortest walk from s to t (t reachable from s)
Distance(g, s, t) ==
    CHOOSE d \in 0 .. g.n :
        /\ \E w \in WalksFrom(g, s, d) : Last(w) = t
        /\ \A k \in 0 .. (d - 1) : \A w \in WalksFrom(g, s, k) : Last(w) # t

\* every walk of Distance(g, s, t) edges from s to t
ShortestPathsRef(g, s, t) ==
    {w \in WalksFrom(g, s, Distance(g, s, t)) : Last(w) = t}

Finished == pc \in {"returned", "raised"}

(***************************************************************************)
(* C1: for every simple graph and every pair of nodes (equal or not),      *)
(* bidirectional_has_path returns True exactly when the target is          *)
(* reachable from the source by breadth-first search along the edges.      *)
(***************************************************************************)
C1_HasPathAgreesWithBFS ==
    (op = "has_path" /\ pc = "returned") =>
        (result = <<TRUE>>) = Reachable(G, source, target)

\* the same for distinct endpoints only
HasPathAgreesWithBFSDistinct ==
    (op = "has_path" /\ pc = "returned" /\ source # target) =>
        (result = <<TRUE>>) = Reachable(G, source, target)

(***************************************************************************)
(* C10: in _bidirectional_has_path with source # target, at every round    *)
(* boundary before the return: each side's leaves are among its seen       *)
(* nodes, the seen sets of the two sides are disjoint, every seen node     *)
(* that is no longer a leaf has all its neighbors (in the side's           *)
(* direction) seen, and so a neighbor admitted in the next round that the  *)
(* other side has seen is one of the other side's current leaves.          *)
(***************************************************************************)
C10_HasPathFrontierInvariant ==
    (op = "has_path" /\ pc = "loop" /\ source # target) =>
        /\ \A i \in 1 .. 2 : leaves[i] \subseteq nodes[i]
        /\ nodes[1] \cap nodes[2] = {}
        /\ \A i \in 1 .. 2 : \A u \in nodes[i] \ leaves[i] :
               neighbors(G, i - 1, u) \subseteq nodes[i]
        /\ \A m \in 0 .. 1 :
               HasPathCandidates(G, m, leaves, nodes) \cap nodes[(1 - m) + 1]
                   \subseteq leaves[(1 - m) + 1]

\* both sides have been expanded and hold seen nodes that are no longer leaves
C10_Witness ==
    /\ op = "has_path" /\ pc = "loop" /\ source # target
    /\ nodes[1] # leaves[1] /\ nodes[2] # leaves[2]
    /\ leaves[1] # {} /\ leaves[2] # {}

(***************************************************************************)
(* C2: for distinct source and target with the target reachable, the       *)
(* fully consumed bidirectional_all_shortest_paths yields every            *)
(* source-to-target walk of Distance edges exactly once and nothing else,  *)
(* and ends without error.                                                 *)
(***************************************************************************)
C2_ShortestPathsExact ==
    (op = "all_shortest_paths" /\ Finished /\ source # target
        /\ Reachable(G, source, target)) =>
        /\ pc = "returned"
        /\ out = SetToBag(ShortestPathsRef(G, source, target))

\* several shortest paths of at least three edges, found from the target side
C2_Witness ==
    /\ op = "all_shortest_paths" /\ pc = "returned" /\ source # target
    /\ modus = 1
    /\ Cardinality(DOMAIN out) >= 2
    /\ \A p \in DOMAIN out : Len(p) >= 4

(***************************************************************************)
(* C6: consuming bidirectional_all_shortest_paths ends with NetworkXNoPath *)
(* exactly when no path from source to target exists (source and target    *)
(* equal or not); the error never follows a yielded path, and when a path  *)
(* exists at least one is yielded and the sequence ends without error.     *)
(***************************************************************************)
C6_NoPathIffUnreachable ==
    (op = "all_shortest_paths" /\ Finished) =>
        /\ (pc = "raised") = ~Reachable(G, source, target)
        /\ pc = "raised" => (error[1] = "NetworkXNoPath" /\ out = EmptyBag)
        /\ pc = "returned" => out # EmptyBag

\* the same for distinct endpoints only
NoPathIffUnreachableDistinct ==
    (op = "all_shortest_paths" /\ Finished /\ source # target) =>
        /\ (pc = "raised") = ~Reachable(G, source, target)
        /\ pc = "raised" => (error[1] = "NetworkXNoPath" /\ out = EmptyBag)
        /\ pc = "returned" => out # EmptyBag

(***************************************************************************)
(* C3: the fully consumed bidirectional_all_simple_paths yields every      *)
(* simple path of 1 .. cutoff edges from source to target exactly once and *)
(* nothing else; an omitted cutoff is the number of nodes - 1; a cutoff    *)
(* below 1 yields nothing; on the complete graph on {0,1,2,3} from 0 to 3  *)
(* these are the five paths of the docstring.                              *)
(***************************************************************************)
K4 ==
    [n |-> 4, directed |-> FALSE, multigraph |-> FALSE,
     mult |-> [e \in Pairs(4, FALSE) |-> 1]]

C3_SimplePathsExact ==
    (op = "all_simple_paths" /\ pc = "returned") =>
        /\ out = SetToBag(SimplePathsUpTo(G, source, target,
                     IF cutoff = NoValue THEN G.n - 1 ELSE cutoff[1]))
        /\ (cutoff # NoValue /\ cutoff[1] < 1) => out = EmptyBag
        /\ (G = K4 /\ source = 0 /\ target = 3 /\ cutoff = NoValue) =>
               out = SetToBag({<<0, 3>>, <<0, 1, 3>>, <<0, 2, 3>>,
                               <<0, 1, 2, 3>>, <<0, 2, 1, 3>>})

\* the docstring example, fully consumed
C3_Witness ==
    /\ op = "all_simple_paths" /\ pc = "returned"
    /\ G = K4 /\ source = 0 /\ target = 3 /\ cutoff = NoValue
    /\ BagCardinality(out) = 5

(***************************************************************************)
(* C4: every path bidirectional_all_simple_paths yields during round r has *)
(* exactly r edges, whichever side the round expanded; so the yielded      *)
(* lengths never decrease.                                                 *)
(***************************************************************************)
C4_RoundYieldsLengthRound ==
    (op = "all_simple_paths" /\ pc \in {"loop", "returned"}) =>
        \A p \in DOMAIN lastYield : Len(p) - 1 = round

\* a round that expanded the target side and yielded two paths of two edges
C4_Witness ==
    /\ op = "all_simple_paths" /\ pc = "loop"
    /\ modus = 1 /\ round = 2
    /\ Cardinality(DOMAIN lastYield) >= 2

(***************************************************************************)
(* C5: each public function, on every kind of graph, fails with            *)
(* NetworkXError when source or target is not a node of the graph, before  *)
(* any frontier is created: nothing is returned and nothing is yielded;    *)
(* the source is checked before the target.                                *)
(***************************************************************************)
C5_MissingNodeRaisesFirst ==
    (pc # "call" /\ (source \notin NodesOf(G) \/ target \notin NodesOf(G))) =>
        /\ pc = "raised"
        /\ error = <<"NetworkXError",
                     IF source \notin NodesOf(G)
                     THEN "source node not in graph"
                     ELSE "target node not in graph">>
        /\ leaves = NoValue /\ tree = NoValue /\ nodes = NoValue
        /\ out = EmptyBag /\ result = NoValue

\* a multigraph call that lacks both endpoints, after it raised
C5_Witness ==
    /\ pc = "raised" /\ G.multigraph
    /\ source \notin NodesOf(G) /\ target \notin NodesOf(G)
    /\ error[1] = "NetworkXError"

(***************************************************************************)
(* C7: on every multigraph M each multigraph engine produces what the      *)
(* simple-graph engine produces on M with its parallel edges collapsed:    *)
(* the same boolean, the same yielded paths with the same multiplicity,    *)
(* and the same NetworkXNoPath outcome.                                    *)
(***************************************************************************)
C7_MultiEqualsCollapsed ==
    (G.multigraph /\ Finished) =>
        LET S == Collapse(G) IN
        CASE op = "has_path" ->
               result = <<RunHasPath(S, <<{source}, {target}>>,
                                     <<{source}, {target}>>)>>
          [] op = "all_shortest_paths" ->
               LET ref == RunShortest(S, <<{<<source>>}, {<<target>>}>>,
                                      <<{source}, {target}>>, 0, EmptyBag)
               IN out = ref.out /\ (pc = "raised") = ref.nopath
          [] op = "all_simple_paths" ->
               out = RunSimple(S, <<LeafDict(source), LeafDict(target)>>, 0,
                               EffectiveCutoff(S, cutoff), EmptyBag)

\* the same on undirected multigraphs without parallel edges
MultiEqualsCollapsedPlain ==
    (~G.directed /\ \A e \in DOMAIN G.mult : G.mult[e] = 1) =>
        C7_MultiEqualsCollapsed

\* has_path on undirected multigraphs, parallel edges or not
MultiHasPathUndirected ==
    (~G.directed /\ op = "has_path") => C7_MultiEqualsCollapsed

(***************************************************************************)
(* C8: in every round of the all-shortest-paths engine the target side is  *)
(* expanded exactly when it holds strictly fewer distinct leaf nodes (end  *)
(* nodes of its partial paths) than the source side.                       *)
(***************************************************************************)
LeafNodes(paths) == {Last(p) : p \in paths}

ShortestRoundStep ==
    op = "all_shortest_paths" /\ pc = "loop" /\ tree' # tree

C8_SideByLeafNodes ==
    [][ShortestRoundStep =>
          (modus' = 1) = (Cardinality(LeafNodes(tree[2]))
                              < Cardinality(LeafNodes(tree[1])))]_vars

\* C8 as amended: the target side is expanded exactly when it holds
\* strictly fewer partial paths than the source side
C8_SideByPathCount ==
    [][ShortestRoundStep =>
          (modus' = 1) = (Cardinality(tree[2]) < Cardinality(tree[1]))]_vars

\* a round is due in which the two counts choose different sides
C8_Witness ==
    /\ op = "all_shortest_paths" /\ pc = "loop" /\ ShortestLoop(found, tree)
    /\ (Cardinality(tree[2]) < Cardinality(tree[1]))
         # (Cardinality(LeafNodes(tree[2])) < Cardinality(LeafNodes(tree[1])))

(***************************************************************************)
(* C9: has_path and a fully consumed all_shortest_paths always end, on     *)
(* graphs with cycles too, and the all-shortest-paths engine starts no     *)
(* round after the round in which it yielded a path.                       *)
(***************************************************************************)
C9_Terminates ==
    /\ <>Finished
    /\ [][(op = "all_shortest_paths" /\ out # EmptyBag) =>
              (tree' = tree /\ out' = out)]_vars

HasCycle(g) == \E u \in NodesOf(g) : u \in ReachFrom(g, successors(g, u))

\* a call that ended on a graph with a cycle and no path
C9_Witness ==
    /\ Finished /\ HasCycle(G) /\ ~Reachable(G, source, target)
    /\ source # target

====
